---- MODULE Spec2Model ----
(***************************************************************************)
(* Bitwise (Fredkin) trie index of src/bitwise_trie.hpp.                    *)
(*                                                                         *)
(* Item references are modelled as the 4-byte aligned addresses the        *)
(* default accessor needs: item n lives at address 4*n, the unset          *)
(* reference is 0, and "my parent is head slot b" is the tagged value      *)
(* (b << 2) | 3 exactly as set_parent_is_index() stores it.                *)
(*                                                                         *)
(* The header has statements that do not compile; they are read as the     *)
(* nearest well-formed statement:                                          *)
(*   l.169  _v.trie_sibling[right] = x      as  _v->trie_sibling[right] = x *)
(*   l.464  head.set_child(bitidx) = r      as  head.set_child(bitidx, r)   *)
(*   l.486  if(nullptr = nodelink.sibling(true))                            *)
(*          as either  nullptr == ...  or  nullptr != ... : the two tests   *)
(*          one character away; which one a build has is fixed from the    *)
(*          start and recorded in ring_test_eq                             *)
(*   l.543  rlink.parent()->child(..)       through the item accessor       *)
(*   l.628  childnodelink.parent().set_child(..)  through the item accessor *)
(*   l.1246 _trieremove(..)                 as  trieremove(..)              *)
(*   l.225  _v->nobbledir = !_v->trie_nobbledir                             *)
(*          as  _v->trie_nobbledir = !_v->trie_nobbledir                    *)
(*   l.372  nobble_function_implementation<nobble_direction>(accessors)     *)
(*          as either that statement, which builds the policy object and   *)
(*          never calls it, or <nobble_direction>()(accessors), which      *)
(*          calls it; which one a build has is recorded in nobble_invoked  *)
(* _to_nobble() (l.372) has no return statement under either reading: the  *)
(* direction its caller reads is any boolean.                              *)
(***************************************************************************)
EXTENDS Integers, Sequences, FiniteSets, TLC

\* ------------------------------------------------------------------ bounds
MaxItems == 3
KeyBits == 3
CountBitsWide == 8
CountBitsNarrow == 1
MaxOps == 7
MaxOpsNobble == 6
MaxOpsClear == 5
MaxOpsQuery == 5
MaxOpsAccess == 5
MaxOpsEraseKey == 4
MaxRounds == 1
MaxOpsHooks == 4
MaxOpsNobbleAny == 5
MaxSetup == 2
MaxTagOps == 2

NULL == 0
Items == {4 * n : n \in 1..MaxItems}
Keys == 0..(2^KeyBits - 1)
Slots == 0..(KeyBits - 1)
Fuel == MaxItems + KeyBits + 2
CRASH == -1

VARIABLES
  trie_count,      \* head: number of items
  trie_children,   \* head: one child slot per bit position
  count_bits,      \* width of the unsigned type of trie_count
  ring_test_eq,    \* build: the ring test of l.486 is == (TRUE) or != (FALSE)
  trie_nobbledir,  \* head: the stored nobble flag
  nobble_direction,\* build: NobbleDir as -1, 0 or 1 (l.366)
  nobble_invoked,  \* build: l.372 calls the policy object (TRUE) or not
  trie_key,        \* item: key
  trie_parent,     \* item: parent reference, index tag, or unset
  trie_child,      \* item: child[0], child[1]
  trie_sibling,    \* item: sibling[0] (previous), sibling[1] (next)
  inserted,        \* history: the attached items, oldest insert first
  ret,             \* what the last insert/erase returned (iterator's _p)
  nops,            \* history: number of calls made on the index
  op,              \* history: the last call: its name, its key argument,
                   \* size() as it was before the call, and where the
                   \* iterator stood that it was made on
  alt,             \* a second index given the same calls under another nobble
                   \* policy (SpecNobble only): its head, links, result
  thread,          \* per thread: where it is in its call, the item it was
                   \* handed, its local `node`, the count it has loaded
  branch_mutex     \* per head slot: the thread holding the branch's mutex
                   \* (0 for none)

vars == <<trie_count, trie_children, count_bits, ring_test_eq, trie_nobbledir,
          nobble_direction, nobble_invoked, trie_key, trie_parent,
          trie_child, trie_sibling, inserted, ret, nops, op, alt, thread,
          branch_mutex>>

\* -------------------------------------------------------------- utilities
Range(s) == {s[n] : n \in 1..Len(s)}
attached == Range(inserted)
B2N(b) == IF b THEN 1 ELSE 0
Remove(s, x) == SelectSeq(s, LAMBDA y : y # x)

\* The index head and the items' housekeeping as one value, so that the
\* sequential field writes of an operation can be composed.
Mem ==
  [count |-> trie_count, children |-> trie_children, bits |-> count_bits,
   eq |-> ring_test_eq, nobbledir |-> trie_nobbledir,
   NobbleDir |-> nobble_direction, invoked |-> nobble_invoked,
   key |-> trie_key, parent |-> trie_parent, child |-> trie_child,
   sibling |-> trie_sibling, stuck |-> FALSE]

\* --------------------------------------------------------- bit-scan (l.48)
RECURSIVE clzl(_, _)
clzl(value, width) ==
  IF width = 0 \/ value >= 2^(width - 1) THEN 0
  ELSE 1 + clzl(value, width - 1)

bitscanr(value) ==
  IF value = 0 THEN 0 ELSE KeyBits - 1 - clzl(value, KeyBits)

\* ---------------------------------------------------- item accessor views
parent_is_index(m, v) == m.parent[v] % 4 = 3
bit_index(m, v) == m.parent[v] \div 4
set_parent(m, v, x) == [m EXCEPT !.parent[v] = x]
\* A tag that shifts the bit index by one place only.
set_parent_is_index_shifted_once(m, v, b) == [m EXCEPT !.parent[v] = b * 2 + 3]
set_parent_is_index(m, v, b) == [m EXCEPT !.parent[v] = b * 4 + 3]
set_child(m, v, right, x) == [m EXCEPT !.child[v][right] = x]
set_sibling(m, v, right, x) == [m EXCEPT !.sibling[v][right] = x]
is_primary_sibling(m, v) == m.parent[v] # NULL
is_secondary_sibling(m, v) == m.parent[v] = NULL
set_is_secondary_sibling(m, v) == [m EXCEPT !.parent[v] = NULL]

\* A reference that can be dereferenced as an item.
IsItem(p) == p \in Items

\* ---------------------------------------------------- head accessor views
max_size(m) == 2^m.bits - 1
incr_size(m) == [m EXCEPT !.count = (m.count + 1) % 2^m.bits]
decr_size(m) == [m EXCEPT !.count = (m.count + 2^m.bits - 1) % 2^m.bits]
head_set_child(m, idx, x) == [m EXCEPT !.children[idx] = x]
flip_nobbledir(m) == [m EXCEPT !.nobbledir = ~m.nobbledir]
Stuck(m) == [m EXCEPT !.stuck = TRUE]

\* ------------------------------------------------------ _trieinsert (l.438)
\* The ring insert of l.473-491, with node the primary found by the descent;
\* m.eq is the build's reading of the test of l.486.
RingInsert(m, r, node) ==
  LET m1 == set_is_secondary_sibling(m, r)
      m2 == set_sibling(m1, r, 1, node)
      p  == m2.sibling[node][0]
      m3 == IF p # NULL THEN set_sibling(m2, r, 0, p)
                         ELSE set_sibling(m2, r, 0, node)
      m4 == set_sibling(m3, node, 0, r)
  IN  IF m.eq = (m4.sibling[node][1] = NULL)
        THEN set_sibling(m4, node, 1, r)
        ELSE m4

\* The descent loop of l.469-501; a descent that never ends leaves the
\* operation stuck, as does any step through a reference that is no item.
RECURSIVE InsertWalk(_, _, _, _, _)
InsertWalk(m, r, node, keybit, fuel) ==
  IF fuel = 0 \/ ~IsItem(node) THEN Stuck(m)
  ELSE IF m.key[node] = m.key[r] THEN RingInsert(m, r, node)
  ELSE LET kb == keybit \div 2
           keybitset == B2N(kb # 0 /\ (m.key[r] \div kb) % 2 = 1)
           childnode == m.child[node][keybitset]
       IN  IF childnode = NULL
             THEN set_child(set_parent(m, r, node), node, keybitset, r)
             ELSE InsertWalk(m, r, childnode, kb, fuel - 1)

\* The result carries ok, the boolean _trieinsert returns.
_trieinsert(m, r) ==
  IF (m.count + 1) % 2^m.bits < m.count THEN [m |-> m, ok |-> FALSE]
  ELSE
    LET rkey == m.key[r]
        m1 == [m EXCEPT !.parent[r] = NULL,
                        !.child[r] = [d \in 0..1 |-> NULL],
                        !.sibling[r] = [d \in 0..1 |-> r]]
        bitidx == bitscanr(rkey)
        keybit == 2^bitidx
        node == m1.children[bitidx]
    IN  IF node = NULL
          THEN [m |-> incr_size(head_set_child(set_parent_is_index(m1, r, bitidx),
                                               bitidx, r)),
                ok |-> TRUE]
          ELSE [m |-> incr_size(InsertWalk(m1, r, node, keybit, Fuel)),
                ok |-> TRUE]

\* insert without the size() < max_size() test and without regard for the
\* result of _trieinsert: the item is always handed back.
insert_ignoring_failure(m, p) ==
  [m |-> _trieinsert(m, p).m, ret |-> p]

\* insert(p) of l.1233: the memory afterwards and the iterator's item (NULL
\* for end()).
insert(m, p) ==
  IF m.count < max_size(m)
    THEN LET t == _trieinsert(m, p)
         IN  IF t.ok THEN [m |-> t.m, ret |-> p] ELSE [m |-> m, ret |-> NULL]
    ELSE [m |-> m, ret |-> NULL]

\* ------------------------------------------------------- trieremove (l.506)
\* The lambda set_parent of l.532-554: node takes over r's place under r's
\* parent or head slot.
RemoveSetParent(m, r, node) ==
  IF parent_is_index(m, r)
    THEN LET bitidx == bit_index(m, r)
         IN  IF bitidx \notin Slots THEN Stuck(m)
             ELSE set_parent_is_index(head_set_child(m, bitidx, node), node, bitidx)
    ELSE LET rp == m.parent[r]
         IN  IF ~IsItem(rp) THEN Stuck(m)
             ELSE LET m1 == IF m.child[rp][0] = r
                              THEN set_child(m, rp, 0, node)
                              ELSE set_child(m, rp, 1, node)
                  IN  set_parent(m1, node, m1.parent[r])

\* A splice that also marks the neighbour after r as a secondary sibling.
RingSpliceMarkingNeighbour(m, r) ==
  LET node1 == m.sibling[r][0]
      m1 == IF IsItem(node1) THEN set_sibling(m, node1, 1, m.sibling[r][1])
                             ELSE Stuck(m)
      node2 == m1.sibling[r][1]
      m2 == IF IsItem(node2)
              THEN set_is_secondary_sibling(
                     set_sibling(m1, node2, 0, m1.sibling[r][0]), node2)
              ELSE Stuck(m1)
  IN  [m |-> m2, node |-> node2]

\* l.520-525 and l.558-563: splice r out of its ring; yields the memory and
\* the last value of node, r's sibling(true).
RingSplice(m, r) ==
  LET node1 == m.sibling[r][0]
      m1 == IF IsItem(node1) THEN set_sibling(m, node1, 1, m.sibling[r][1])
                             ELSE Stuck(m)
      node2 == m1.sibling[r][1]
      m2 == IF IsItem(node2) THEN set_sibling(m1, node2, 0, m1.sibling[r][0])
                             ELSE Stuck(m1)
  IN  [m |-> m2, node |-> node2]

\* A replacement search that takes r's child without descending from it.
NobbleWalkNoDescent(m, childnode, parentchildidx, nobbledir, fuel) ==
  <<childnode, parentchildidx>>

\* The replacement search of l.609-626: <<childnode, parentchildidx>>.
RECURSIVE NobbleWalk(_, _, _, _, _)
NobbleWalk(m, childnode, parentchildidx, nobbledir, fuel) ==
  IF fuel = 0 THEN <<NULL, parentchildidx>>
  ELSE IF m.child[childnode][nobbledir] # NULL
    THEN NobbleWalk(m, m.child[childnode][nobbledir], nobbledir, nobbledir, fuel - 1)
  ELSE IF m.child[childnode][1 - nobbledir] # NULL
    THEN NobbleWalk(m, m.child[childnode][1 - nobbledir], 1 - nobbledir,
                    nobbledir, fuel - 1)
  ELSE <<childnode, parentchildidx>>

\* The policy object's call operator (l.108-119): the memory after it and
\* the value it yields. NobbleDir = 0 flips the stored flag and yields the
\* flipped value, -1 yields false, 1 yields true.
nobble_function_implementation(m) ==
  IF m.NobbleDir = 0
    THEN [m |-> flip_nobbledir(m), yields |-> B2N(~m.nobbledir)]
    ELSE [m |-> m, yields |-> B2N(m.NobbleDir > 0)]

\* _to_nobble (l.372): the memory after it. What it returns is not the
\* policy's value: control runs off its end.
_to_nobble(m) == IF m.invoked THEN nobble_function_implementation(m).m ELSE m

\* The case trieremove is in when it reaches l.592.
ReachesReplacement(m, r) ==
  /\ is_primary_sibling(m, r)
  /\ m.sibling[r][1] = r
  /\ (m.child[r][0] # NULL \/ m.child[r][1] # NULL)

\* l.592-648: r is an internal node alone in its ring; nobbledir is the
\* value read from _to_nobble at l.595.
RemoveInternal(m, r, nobbledir) ==
  LET first == IF m.child[r][nobbledir] # NULL THEN nobbledir ELSE 1 - nobbledir
      found == NobbleWalk(m, m.child[r][first], first, nobbledir, Fuel)
      node == found[1]
      parentchildidx == found[2]
  IN  IF ~IsItem(node) \/ ~IsItem(m.parent[node]) THEN Stuck(m)
      ELSE
        LET m1 == set_child(_to_nobble(m), m.parent[node], parentchildidx, NULL)
            c0 == m1.child[r][0]
            m2 == IF c0 # NULL
                    THEN set_parent(set_child(m1, node, 0, c0), c0, node)
                    ELSE m1
            c1 == m2.child[r][1]
            m3 == IF c1 # NULL
                    THEN set_parent(set_child(m2, node, 1, c1), c1, node)
                    ELSE m2
        IN  decr_size(RemoveSetParent(m3, r, node))

\* l.568-591: r is a leaf alone in its ring.
RemoveLeaf(m, r) ==
  IF parent_is_index(m, r)
    THEN LET bitidx == bit_index(m, r)
         IN  IF bitidx \notin Slots THEN Stuck(m)
             ELSE decr_size(head_set_child(m, bitidx, NULL))
    ELSE LET rp == m.parent[r]
         IN  IF ~IsItem(rp) THEN Stuck(m)
             ELSE IF m.child[rp][0] = r
               THEN decr_size(set_child(m, rp, 0, NULL))
               ELSE decr_size(set_child(m, rp, 1, NULL))

trieremove(m, r, nobbledir) ==
  IF is_secondary_sibling(m, r)
    THEN decr_size(RingSplice(m, r).m)
  ELSE IF m.sibling[r][1] # r
    THEN LET s == RingSplice(m, r)
         IN  IF s.m.stuck THEN s.m
             ELSE decr_size(RemoveSetParent(s.m, r, s.node))
  ELSE IF m.child[r][0] = NULL /\ m.child[r][1] = NULL
    THEN RemoveLeaf(m, r)
  ELSE RemoveInternal(m, r, nobbledir)

\* ------------------------------------------------- forward traversal (l.733)
\* l.745-749: from a secondary back to its tree node.
RECURSIVE BackToTreeNode(_, _, _)
BackToTreeNode(m, r, fuel) ==
  IF fuel = 0 \/ ~IsItem(r) THEN CRASH
  ELSE IF is_primary_sibling(m, r) THEN r
  ELSE BackToTreeNode(m, m.sibling[r][1], fuel - 1)

\* l.757-774: trace up the parents to the next branch; rlink is the item
\* whose parent is the index when the branch is exhausted.
RECURSIVE TraceUpNext(_, _, _)
TraceUpNext(m, r, fuel) ==
  IF fuel = 0 THEN [node |-> CRASH, rlink |-> NULL]
  ELSE IF parent_is_index(m, r) THEN [node |-> NULL, rlink |-> r]
  ELSE LET node == m.parent[r]
       IN  IF ~IsItem(node) THEN [node |-> CRASH, rlink |-> NULL]
           ELSE IF m.child[node][0] = r /\ m.child[node][1] # NULL
             THEN [node |-> m.child[node][1], rlink |-> NULL]
           ELSE TraceUpNext(m, node, fuel - 1)

\* _triebranchnext with child[1] and child[0] swapped throughout, so that a
\* node's child[1] subtree is walked before its child[0] subtree.
RECURSIVE TraceUpNextSwapped(_, _, _)
TraceUpNextSwapped(m, r, fuel) ==
  IF fuel = 0 THEN [node |-> CRASH, rlink |-> NULL]
  ELSE IF parent_is_index(m, r) THEN [node |-> NULL, rlink |-> r]
  ELSE LET node == m.parent[r]
       IN  IF ~IsItem(node) THEN [node |-> CRASH, rlink |-> NULL]
           ELSE IF m.child[node][1] = r /\ m.child[node][0] # NULL
             THEN [node |-> m.child[node][0], rlink |-> NULL]
           ELSE TraceUpNextSwapped(m, node, fuel - 1)

_triebranchnext_swapped(m, r) ==
  LET r1 == BackToTreeNode(m, r, Fuel)
  IN  IF r1 = CRASH THEN [node |-> CRASH, rlink |-> NULL]
      ELSE LET node == IF m.child[r1][1] # NULL THEN m.child[r1][1]
                                                 ELSE m.child[r1][0]
           IN  IF node # NULL THEN [node |-> node, rlink |-> NULL]
               ELSE TraceUpNextSwapped(m, r1, Fuel)

_triebranchnext(m, r) ==
  LET s == m.sibling[r][1]
  IN  IF s # NULL /\ ~IsItem(s) THEN [node |-> CRASH, rlink |-> NULL]
      ELSE IF s # NULL /\ ~is_primary_sibling(m, s) THEN [node |-> s, rlink |-> NULL]
      ELSE LET r1 == BackToTreeNode(m, r, Fuel)
           IN  IF r1 = CRASH THEN [node |-> CRASH, rlink |-> NULL]
               ELSE LET node == IF m.child[r1][0] # NULL THEN m.child[r1][0]
                                                          ELSE m.child[r1][1]
                    IN  IF node # NULL THEN [node |-> node, rlink |-> NULL]
                        ELSE TraceUpNext(m, r1, Fuel)

\* The scan of the head array from slot bitidx upwards (l.403, l.791).
RECURSIVE ScanUp(_, _)
ScanUp(m, bitidx) ==
  IF bitidx >= KeyBits THEN NULL
  ELSE IF m.children[bitidx] # NULL THEN m.children[bitidx]
  ELSE ScanUp(m, bitidx + 1)

_trienext(m, r) ==
  LET b == _triebranchnext(m, r)
  IN  IF b.node # NULL THEN b.node
      ELSE ScanUp(m, bit_index(m, b.rlink) + 1)

_triemin(m) ==
  IF m.count = 0 THEN NULL ELSE ScanUp(m, 0)

\* begin() .. end(): the items operator++ yields from begin(), in order; the
\* sequence ends with CRASH when the walk does not reach end().
RECURSIVE Walk(_, _, _)
Walk(m, p, fuel) ==
  IF p = NULL THEN <<>>
  ELSE IF p = CRASH \/ fuel = 0 THEN <<CRASH>>
  ELSE <<p>> \o Walk(m, _trienext(m, p), fuel - 1)

Forward(m) == Walk(m, _triemin(m), MaxItems + 1)

\* ------------------------------------------------ backward traversal (l.651)
\* The scan of the head array from slot bitidx downwards (l.419, l.711).
RECURSIVE ScanDown(_, _)
ScanDown(m, bitidx) ==
  IF bitidx < 0 THEN NULL
  ELSE IF m.children[bitidx] # NULL THEN m.children[bitidx]
  ELSE ScanDown(m, bitidx - 1)

\* l.424-428, l.673-677, l.719-723: follow child[1] preferentially downwards.
RECURSIVE BottomRight(_, _, _)
BottomRight(m, node, fuel) ==
  IF fuel = 0 \/ ~IsItem(node) THEN CRASH
  ELSE LET child == IF m.child[node][1] # NULL THEN m.child[node][1]
                                                ELSE m.child[node][0]
       IN  IF child = NULL THEN node ELSE BottomRight(m, child, fuel - 1)

\* l.430-434, l.681-685, l.725-729: "now go to end leaf".
EndLeaf(m, node) ==
  IF node = CRASH THEN CRASH
  ELSE IF m.sibling[node][0] # node THEN m.sibling[node][0]
  ELSE node

_triemax(m) ==
  IF m.count = 0 THEN NULL
  ELSE EndLeaf(m, BottomRight(m, ScanDown(m, KeyBits - 1), Fuel))

_triebranchprev(m, r) ==
  LET s == m.sibling[r][0]
  IN  IF s # r /\ ~IsItem(s) THEN [node |-> CRASH, rlink |-> NULL]
      ELSE IF s # r /\ ~is_primary_sibling(m, s) THEN [node |-> s, rlink |-> NULL]
      ELSE IF parent_is_index(m, r) THEN [node |-> NULL, rlink |-> r]
      ELSE LET node == m.parent[r]
           IN  IF ~IsItem(node) THEN [node |-> CRASH, rlink |-> NULL]
               ELSE IF m.child[node][1] = r /\ m.child[node][0] # NULL
                 THEN [node |-> EndLeaf(m, BottomRight(m, m.child[node][0], Fuel)),
                       rlink |-> NULL]
               ELSE [node |-> EndLeaf(m, node), rlink |-> NULL]

_trieprev(m, r) ==
  LET b == _triebranchprev(m, r)
  IN  IF b.node # NULL THEN b.node
      ELSE LET node == ScanDown(m, bit_index(m, b.rlink) - 1)
           IN  IF node = NULL THEN NULL
               ELSE EndLeaf(m, BottomRight(m, node, Fuel))

\* The items _trieprev yields from _triemax, in order; the sequence ends with
\* CRASH when the walk does not reach the not-found marker.
RECURSIVE WalkBack(_, _, _)
WalkBack(m, p, fuel) ==
  IF p = NULL THEN <<>>
  ELSE IF p = CRASH \/ fuel = 0 THEN <<CRASH>>
  ELSE <<p>> \o WalkBack(m, _trieprev(m, p), fuel - 1)

Backward(m) == WalkBack(m, _triemax(m), MaxItems + 1)

\* ------------------------------------------------------------- find family
\* _triefind is called by find/contains/count (l.1219, l.1254, l.1283) but is
\* not defined in the header; it follows the description of exact find:
\* descend by successive key bits from the head slot of the key's highest
\* set bit, return the node whose key matches, not-found when a required
\* child is absent.
RECURSIVE FindWalk(_, _, _, _, _)
FindWalk(m, k, node, keybit, fuel) ==
  IF node = NULL THEN NULL
  ELSE IF fuel = 0 \/ ~IsItem(node) THEN CRASH
  ELSE IF m.key[node] = k THEN node
  ELSE LET kb == keybit \div 2
           keybitset == B2N(kb # 0 /\ (k \div kb) % 2 = 1)
       IN  FindWalk(m, k, m.child[node][keybitset], kb, fuel - 1)

_triefind(m, k) ==
  FindWalk(m, k, m.children[bitscanr(k)], 2^bitscanr(k), Fuel)

find(m, k) == _triefind(m, k)
contains(m, k) == _triefind(m, k) # NULL

\* count(k) of l.1217: walk sibling(true) from the found item until it comes
\* round again.
RECURSIVE CountWalk(_, _, _, _)
CountWalk(m, p, i, fuel) ==
  IF i = p THEN 0
  ELSE IF fuel = 0 \/ ~IsItem(i) THEN CRASH
  ELSE LET rest == CountWalk(m, p, m.sibling[i][1], fuel - 1)
       IN  IF rest = CRASH THEN CRASH ELSE 1 + rest

count(m, k) ==
  LET p == _triefind(m, k)
  IN  IF p = NULL THEN 0
      ELSE IF p = CRASH THEN CRASH
      ELSE LET n == CountWalk(m, p, m.sibling[p][1], Fuel)
           IN  IF n = CRASH THEN CRASH ELSE 1 + n

\* _triecfind is called by close_find/nearest_find (l.1265, l.1276) but is not
\* defined in the header; it follows the description of close find: the
\* nodes examined are those within `rounds` levels below the head slots from
\* the key's highest set bit upwards, and the result is the best candidate
\* among them whose key is >= k.
RECURSIVE NodesWithin(_, _, _)
NodesWithin(m, node, levels) ==
  IF ~IsItem(node) \/ levels < 0 THEN {}
  ELSE {node} \cup NodesWithin(m, m.child[node][0], levels - 1)
              \cup NodesWithin(m, m.child[node][1], levels - 1)

Examined(m, k, rounds) ==
  UNION {NodesWithin(m, m.children[b], IF rounds < Fuel THEN rounds ELSE Fuel)
           : b \in bitscanr(k)..(KeyBits - 1)}

_triecfind(m, k, rounds) ==
  LET cand == {v \in Examined(m, k, rounds) : m.key[v] >= k}
  IN  IF cand = {} THEN NULL
      ELSE CHOOSE v \in cand : \A w \in cand : m.key[v] <= m.key[w]

close_find(m, k, rounds) == _triecfind(m, k, rounds)
nearest_find(m, k) == _triecfind(m, k, 2^KeyBits - 1)

\* ------------------------------------ the branch lock hooks (l.217, l.374)
\* (unsigned) -1, the default of the bit-position hint.
NoHint == -1

\* What one _lock_unlock_branch object makes the head accessor see. Its
\* constructor calls lock_branch(key, bitidxhint) (l.382): lock_branch's
\* second parameter is `exclusive`, so it receives the hint converted to
\* bool there and its own hint parameter takes the default; the token is
\* what lock_branch returns (0, l.221). Its destructor calls
\* unlock_branch(token, exclusive) with the flag the object was built with
\* (l.389). `by` names the engine operation that built the object.
_lock_unlock_branch(by, key, exclusive, bitidxhint) ==
  << [hook |-> "lock_branch", by |-> by, key |-> key,
      exclusive |-> (bitidxhint # 0), hint |-> NoHint, token |-> 0],
     [hook |-> "unlock_branch", by |-> by, token |-> 0, exclusive |-> exclusive] >>

\* An operation that traps after taking the lock never runs the destructor.
UntilTrap(hooks, result) == IF result = CRASH THEN SubSeq(hooks, 1, 1) ELSE hooks

\* _trieinsert takes the lock at l.468, after the empty-slot return of l.457.
insert_hooks(m, p) ==
  IF ~(m.count < max_size(m)) \/ (m.count + 1) % 2^m.bits < m.count
       \/ m.children[bitscanr(m.key[p])] = NULL
    THEN <<>>
    ELSE _lock_unlock_branch("insert", m.key[p], TRUE, bitscanr(m.key[p]))

\* _trienext (l.782) and _trieprev (l.701) pass no hint; result is what the
\* walk comes to.
_trienext_hooks(m, r, result) ==
  UntilTrap(_lock_unlock_branch("next", m.key[r], FALSE, NoHint), result)
_trieprev_hooks(m, r, result) ==
  UntilTrap(_lock_unlock_branch("prev", m.key[r], FALSE, NoHint), result)

\* _triemax (l.423) passes the slot it found as the hint.
_triemax_hooks(m, result) ==
  LET node == ScanDown(m, KeyBits - 1)
  IN  IF m.count = 0 \/ ~IsItem(node) THEN <<>>
      ELSE UntilTrap(_lock_unlock_branch("max", m.key[node], FALSE,
                                         bitscanr(m.key[node])),
                     result)

\* trieremove (l.514) passes no hint.
trieremove_hooks(m, r) == _lock_unlock_branch("remove", m.key[r], TRUE, NoHint)

\* erase(it) of l.1242: operator++ on the copy, which does not trap, then
\* trieremove.
erase_hooks(m, p) == _trienext_hooks(m, p, NULL) \o trieremove_hooks(m, p)

\* ------------------------------------------------------------------ actions
Threads == 1..2
Idle == [pc |-> "idle", call |-> "none", item |-> NULL, node |-> NULL, loaded |-> 0]
Called(name, k) ==
  [name |-> name, key |-> k, size |-> trie_count, at |-> NULL, hooks |-> <<>>,
   nobbled |-> <<>>]

Write(m) ==
  /\ trie_count' = m.count
  /\ trie_children' = m.children
  /\ trie_key' = m.key
  /\ trie_parent' = m.parent
  /\ trie_child' = m.child
  /\ trie_sibling' = m.sibling
  /\ trie_nobbledir' = m.nobbledir
  /\ UNCHANGED <<count_bits, ring_test_eq, nobble_direction, nobble_invoked>>

\* The writes of a call made while no other call is under way.
Store(m) == Write(m) /\ UNCHANGED <<thread, branch_mutex>>

\* insert(p) of l.1233, for an item p the caller has given key k; an item is
\* only inserted while it is not attached.
Insert(p, k) ==
  /\ nops < MaxOps
  /\ nops' = nops + 1
  /\ p \notin attached
  /\ LET t == insert([Mem EXCEPT !.key[p] = k], p)
     IN  /\ ~t.m.stuck
         /\ Store(t.m)
         /\ inserted' = IF t.ret # NULL THEN Append(inserted, p) ELSE inserted
         /\ ret' = t.ret
         /\ op' = [Called("insert", k) EXCEPT
                    !.at = p,
                    !.hooks = insert_hooks([Mem EXCEPT !.key[p] = k], p)]
  /\ UNCHANGED alt

\* erase(it) of l.1242 for an iterator at an attached item: it advances a
\* copy of the iterator, removes the item and returns it.
Erase(p) ==
  /\ nops < MaxOps
  /\ nops' = nops + 1
  /\ p \in attached
  /\ _trienext(Mem, p) # CRASH
  /\ \E nobbledir \in 0..1 :
       LET m == trieremove(Mem, p, nobbledir)
       IN  /\ ~m.stuck
           /\ Store(m)
           /\ op' = [Called("erase", trie_key[p]) EXCEPT
                      !.at = p, !.hooks = erase_hooks(Mem, p),
                      !.nobbled = IF ReachesReplacement(Mem, p)
                                    THEN <<nobbledir>> ELSE <<>>]
  /\ inserted' = Remove(inserted, p)
  /\ ret' = p
  /\ UNCHANGED alt

\* ----------------------------------------------- two nobble policies (l.108)
\* The second index as a memory: it shares the items' keys, which the caller
\* sets, and the build.
AltMem ==
  [Mem EXCEPT !.count = alt.count, !.children = alt.children,
              !.parent = alt.parent, !.child = alt.child,
              !.sibling = alt.sibling]

AltOf(m, r, h) ==
  [count |-> m.count, children |-> m.children, parent |-> m.parent,
   child |-> m.child, sibling |-> m.sibling, ret |-> r, hung |-> h]

\* insert(p) on both indices.
InsertBoth(p, k) ==
  /\ nops < MaxOpsNobble
  /\ nops' = nops + 1
  /\ p \notin attached
  /\ ~alt.hung
  /\ LET t == insert([Mem EXCEPT !.key[p] = k], p)
         u == insert([AltMem EXCEPT !.key[p] = k], p)
     IN  /\ ~t.m.stuck
         /\ Store(t.m)
         /\ inserted' = IF t.ret # NULL THEN Append(inserted, p) ELSE inserted
         /\ ret' = t.ret
         /\ op' = [Called("insert", k) EXCEPT
                    !.at = p,
                    !.hooks = insert_hooks([Mem EXCEPT !.key[p] = k], p)]
         /\ alt' = IF u.m.stuck THEN [alt EXCEPT !.hung = TRUE]
                                ELSE AltOf(u.m, u.ret, FALSE)

\* erase(it) on both indices: the first with the direction read as false,
\* what the policy of NobbleDir = -1 yields (l.112-115), the second with
\* any direction, which covers what the policies of NobbleDir = 1 and
\* NobbleDir = 0 yield.
EraseBoth(p) ==
  /\ nops < MaxOpsNobble
  /\ nops' = nops + 1
  /\ p \in attached
  /\ ~alt.hung
  /\ _trienext(Mem, p) # CRASH
  /\ LET m == trieremove(Mem, p, 0)
     IN  /\ ~m.stuck
         /\ Store(m)
  /\ \E nobbledir \in 0..1 :
       LET u == trieremove(AltMem, p, nobbledir)
       IN  alt' = IF u.stuck \/ _trienext(AltMem, p) = CRASH
                    THEN [alt EXCEPT !.hung = TRUE]
                    ELSE AltOf(u, p, FALSE)
  /\ inserted' = Remove(inserted, p)
  /\ ret' = p
  /\ op' = [Called("erase", trie_key[p]) EXCEPT
             !.at = p, !.hooks = erase_hooks(Mem, p)]

InitMemory ==
  /\ ring_test_eq \in BOOLEAN
  /\ trie_count = 0
  /\ trie_children = [b \in Slots |-> NULL]
  /\ trie_key = [v \in Items |-> 0]
  /\ trie_parent = [v \in Items |-> NULL]
  /\ trie_child = [v \in Items |-> [d \in 0..1 |-> NULL]]
  /\ trie_sibling = [v \in Items |-> [d \in 0..1 |-> NULL]]
  /\ inserted = <<>>
  /\ ret = NULL
  /\ nops = 0
  /\ thread = [t \in Threads |-> Idle]
  /\ branch_mutex = [b \in Slots |-> 0]
  /\ alt = [count |-> 0, children |-> [b \in Slots |-> NULL],
            parent |-> [v \in Items |-> NULL],
            child |-> [v \in Items |-> [d \in 0..1 |-> NULL]],
            sibling |-> [v \in Items |-> [d \in 0..1 |-> NULL]],
            ret |-> NULL, hung |-> FALSE]

InitItems ==
  /\ InitMemory
  /\ op = [name |-> "none", key |-> 0, size |-> 0, at |-> NULL, hooks |-> <<>>,
           nobbled |-> <<>>]

\* The build the callers below use: NobbleDir at its default, 0 (l.332),
\* and l.372 as it stands; the flag starts false.
InitNobble ==
  /\ nobble_direction = 0
  /\ nobble_invoked = FALSE
  /\ trie_nobbledir = FALSE

Init == InitItems /\ InitNobble /\ count_bits = CountBitsWide
InitNarrow == InitItems /\ InitNobble /\ count_bits = CountBitsNarrow
\* Every nobble policy and both readings of l.372.
InitNobbleAny ==
  /\ InitItems
  /\ count_bits = CountBitsWide
  /\ nobble_direction \in -1..1
  /\ nobble_invoked \in BOOLEAN
  /\ trie_nobbledir = FALSE

Next ==
  \/ \E p \in Items, k \in Keys : Insert(p, k)
  \/ \E p \in Items : Erase(p)

NextNobble ==
  \/ \E p \in Items, k \in Keys : InsertBoth(p, k)
  \/ \E p \in Items : EraseBoth(p)

Spec == Init /\ [][Next]_vars
SpecNarrow == InitNarrow /\ [][Next]_vars
SpecNobble == Init /\ [][NextNobble]_vars

\* ------------------------------------------------------------ clear (l.1206)
\* A loop over the head slots that stops one slot short.
clear_skipping_slot(m) ==
  [m EXCEPT !.children = [b \in Slots |-> IF b < KeyBits - 1 THEN NULL ELSE @[b]],
            !.count = 0]

\* clear(): every head slot is set to nullptr and the size to 0.
clear(m) ==
  [m EXCEPT !.children = [b \in Slots |-> NULL], !.count = 0]

\* A call is made only while the program runs: not after abort() or a trap.
ABORT == -2
Live == ret # CRASH /\ ret # ABORT

Clear ==
  /\ nops < MaxOpsClear
  /\ nops' = nops + 1
  /\ Store(clear(Mem))
  /\ inserted' = <<>>
  /\ ret' = NULL
  /\ op' = Called("clear", 0)
  /\ UNCHANGED alt

NextClear ==
  \/ \E p \in Items, k \in Keys : nops < MaxOpsClear /\ Insert(p, k)
  \/ \E p \in Items : nops < MaxOpsClear /\ Erase(p)
  \/ Clear

SpecClear == Init /\ [][NextClear]_vars

\* ------------------------------------------------------- queries (l.1217-1283)
\* A query returns a value and writes nothing.
Query(name, k, result, hooks) ==
  /\ Live
  /\ nops < MaxOpsQuery
  /\ nops' = nops + 1
  /\ ret' = result
  /\ op' = [Called(name, k) EXCEPT !.hooks = hooks]
  /\ UNCHANGED <<trie_count, trie_children, count_bits, ring_test_eq, trie_key,
                 trie_parent, trie_child, trie_sibling, inserted, alt,
                 trie_nobbledir, nobble_direction, nobble_invoked, thread,
                 branch_mutex>>

\* A find that moves the item it found to the head slot of its key.
FindMovingToHead(k) ==
  /\ Live
  /\ nops < MaxOpsQuery
  /\ nops' = nops + 1
  /\ ret' = find(Mem, k)
  /\ op' = Called("find", k)
  /\ trie_children' = IF IsItem(find(Mem, k))
                        THEN [trie_children EXCEPT ![bitscanr(k)] = find(Mem, k)]
                        ELSE trie_children
  /\ UNCHANGED <<trie_count, count_bits, ring_test_eq, trie_key,
                 trie_parent, trie_child, trie_sibling, inserted, alt,
                 trie_nobbledir, nobble_direction, nobble_invoked, thread,
                 branch_mutex>>

Find(k) == Query("find", k, find(Mem, k), <<>>)
Contains(k) ==
  Query("contains", k,
        IF find(Mem, k) = CRASH THEN CRASH ELSE B2N(contains(Mem, k)), <<>>)
Count(k) == Query("count", k, count(Mem, k), <<>>)
CloseFind(k, rounds) ==
  Query("close_find", k, close_find(Mem, k, rounds), <<>>)
NearestFind(k) == Query("nearest_find", k, nearest_find(Mem, k), <<>>)

\* operator++ of an iterator at item p or at end() (l.946-953).
_inc(m, p) == IF p # NULL THEN _trienext(m, p) ELSE p
\* operator-- of an iterator at item p or at end() (l.954-968).
_dec(m, p) == IF p = NULL THEN _triemax(m) ELSE _trieprev(m, p)

_inc_hooks(m, p) == IF p # NULL THEN _trienext_hooks(m, p, _inc(m, p)) ELSE <<>>
_dec_hooks(m, p) ==
  IF p = NULL THEN _triemax_hooks(m, _dec(m, p))
              ELSE _trieprev_hooks(m, p, _dec(m, p))

Increment(p) ==
  Query("next", 0, _inc(Mem, p), _inc_hooks(Mem, p))
Decrement(p) == Query("prev", 0, _dec(Mem, p), _dec_hooks(Mem, p))

QueryNames == {"find", "contains", "count", "close_find", "nearest_find", "next", "prev"}

\* The keys the callers of SpecQuery insert and ask for: key 0 and three keys
\* of the top head slot.
QueryKeys == {0} \cup {2^(KeyBits - 1) + n : n \in 0..2}

NextQuery ==
  \/ \E p \in Items, k \in QueryKeys : Live /\ nops < MaxOpsQuery /\ Insert(p, k)
  \/ \E p \in Items : Live /\ nops < MaxOpsQuery /\ Erase(p)
  \/ \E k \in QueryKeys : Find(k)
  \/ \E k \in QueryKeys : Contains(k)
  \/ \E k \in QueryKeys : Count(k)
  \/ \E k \in QueryKeys, rounds \in 0..MaxRounds : CloseFind(k, rounds)
  \/ \E k \in QueryKeys : NearestFind(k)
  \/ \E p \in attached \cup {NULL} : Increment(p)
  \/ \E p \in attached \cup {NULL} : Decrement(p)

SpecQuery == Init /\ [][NextQuery]_vars

\* ------------------------------------- accessors (l.1018, l.1141, l.1284)
\* What `if(auto p = ...) return *p; abort();` yields for the pointer found.
OrAbort(p) == IF p = NULL THEN ABORT ELSE p

front(m) == OrAbort(_triemin(m))
back(m) == OrAbort(_triemax(m))
subscript(m, k) == OrAbort(_triefind(m, k))
\* operator* of an iterator at item p or at end().
deref(p) == OrAbort(p)

Access(name, k, p, result, hooks) ==
  /\ Live
  /\ nops < MaxOpsAccess
  /\ nops' = nops + 1
  /\ ret' = result
  /\ op' = [Called(name, k) EXCEPT !.at = p, !.hooks = hooks]
  /\ UNCHANGED <<trie_count, trie_children, count_bits, ring_test_eq, trie_key,
                 trie_parent, trie_child, trie_sibling, inserted, alt,
                 trie_nobbledir, nobble_direction, nobble_invoked, thread,
                 branch_mutex>>

\* _triemin (l.394-407) builds no lock object.
Front == Access("front", 0, NULL, front(Mem), <<>>)
Back == Access("back", 0, NULL, back(Mem), _triemax_hooks(Mem, back(Mem)))
Subscript(k) == Access("operator[]", k, NULL, subscript(Mem, k), <<>>)
Deref(p) == Access("operator*", 0, p, deref(p), <<>>)

NextAccess ==
  \/ \E p \in Items, k \in Keys : Live /\ nops < MaxOpsAccess /\ Insert(p, k)
  \/ \E p \in Items : Live /\ nops < MaxOpsAccess /\ Erase(p)
  \/ Front
  \/ Back
  \/ \E k \in Keys : Subscript(k)
  \/ \E p \in attached \cup {NULL} : Deref(p)

SpecAccess == Init /\ [][NextAccess]_vars

\* ------------------------------------------------------ erase(k) (l.1250)
\* erase(k) is erase(find(k)) with no test for end(). erase(it) of l.1242
\* advances a copy of the iterator, removes it._p and returns it. With it at
\* end(), _inc does nothing (l.948) and trieremove is handed nullptr, whose
\* key and parent it reads at l.514 and l.517: a read through a null
\* reference. Either the read traps, or address 0 is readable and reads as
\* zeros, and then the item "is a secondary sibling" (l.517), the ring splice
\* (l.520-525) writes to address 0 only, and decr_size runs (l.526).
erase_key(m, k, nobbledir, trap) ==
  LET p == find(m, k)
  IN  IF p = CRASH THEN [m |-> m, ret |-> CRASH]
      ELSE IF p = NULL
        THEN IF trap THEN [m |-> m, ret |-> CRASH]
                     ELSE [m |-> decr_size(m), ret |-> NULL]
      ELSE IF _inc(m, p) = CRASH THEN [m |-> m, ret |-> CRASH]
      ELSE LET m1 == trieremove(m, p, nobbledir)
           IN  IF m1.stuck THEN [m |-> m, ret |-> CRASH]
               ELSE [m |-> m1, ret |-> p]

\* With it at end() and address 0 readable, the lock object of l.514 is
\* built with the key read there.
erase_key_hooks(m, k, trap) ==
  LET p == find(m, k)
  IN  IF p = CRASH THEN <<>>
      ELSE IF p = NULL
        THEN IF trap THEN <<>> ELSE _lock_unlock_branch("remove", 0, TRUE, NoHint)
      ELSE IF _inc(m, p) = CRASH THEN _trienext_hooks(m, p, CRASH)
      ELSE erase_hooks(m, p)

EraseKey(k) ==
  /\ Live
  /\ nops < MaxOpsEraseKey
  /\ nops' = nops + 1
  /\ \E nobbledir \in 0..1, trap \in BOOLEAN :
       LET t == erase_key(Mem, k, nobbledir, trap)
       IN  /\ Store(t.m)
           /\ ret' = t.ret
           /\ inserted' = IF IsItem(t.ret) THEN Remove(inserted, t.ret) ELSE inserted
           /\ op' = [Called("erase(k)", k) EXCEPT
                      !.hooks = erase_key_hooks(Mem, k, trap)]
  /\ UNCHANGED alt

NextEraseKey ==
  \/ \E p \in Items, k \in Keys : Live /\ nops < MaxOpsEraseKey /\ Insert(p, k)
  \/ \E p \in Items : Live /\ nops < MaxOpsEraseKey /\ Erase(p)
  \/ \E k \in Keys : EraseKey(k)

SpecEraseKey == Init /\ [][NextEraseKey]_vars

\* ------------------------------------ callers watched through the hooks
NextHooks ==
  \/ \E p \in Items, k \in Keys : nops < MaxOpsHooks /\ Insert(p, k)
  \/ \E p \in Items : nops < MaxOpsHooks /\ Erase(p)
  \/ \E p \in attached \cup {NULL} : nops < MaxOpsHooks /\ Increment(p)
  \/ \E p \in attached \cup {NULL} : nops < MaxOpsHooks /\ Decrement(p)
  \/ nops < MaxOpsHooks /\ Front
  \/ nops < MaxOpsHooks /\ Back

SpecHooks == Init /\ [][NextHooks]_vars

\* ------------------------------------ callers under every nobble policy
NobbleKeys == {2^(KeyBits - 1) + n : n \in 0..2}

NextNobbleAny ==
  \/ \E p \in Items, k \in NobbleKeys : nops < MaxOpsNobbleAny /\ Insert(p, k)
  \/ \E p \in Items : nops < MaxOpsNobbleAny /\ Erase(p)
  \/ \E k \in NobbleKeys : nops < MaxOpsNobbleAny /\ Find(k)

SpecNobbleAny == InitNobbleAny /\ [][NextNobbleAny]_vars

\* --------------------------------- two threads calling at once (l.206)
\* The head accessor's lock_branch/unlock_branch are replaced by a mutex per
\* head slot, taken by lock_branch for the slot of the key's highest set bit
\* and released by unlock_branch. Each thread makes one call, _trieinsert or
\* trieremove, whose reads and writes of shared memory are taken in the
\* order of the code: what happens before the lock object is built, the
\* locked part, the load and the store of ++trie_count / --trie_count
\* (l.206, l.207: a plain increment of a plain member), the unlock.
ThreadKeys == {1} \cup {2^(KeyBits - 1) + n : n \in 0..2}
AllIdle == \A t \in Threads : thread[t] = Idle
HandedOut(p) == \E t \in Threads : thread[t].item = p
SlotOf(t) == bitscanr(trie_key[thread[t].item])
At(t, pc) == [thread EXCEPT ![t].pc = pc]
ThreadFrame == UNCHANGED <<inserted, ret, nops, op, alt>>

\* Calls made before the threads start, on keys not yet in the index.
SetupInsert(p, k) ==
  /\ AllIdle
  /\ nops < MaxSetup
  /\ \A v \in attached : trie_key[v] # k
  /\ Insert(p, k)

\* l.441-457: the size test, the reset of r's fields, the read of the head
\* slot into node.
InsertBegin(t, p, k) ==
  /\ thread[t] = Idle
  /\ p \notin attached
  /\ ~HandedOut(p)
  /\ trie_count < max_size(Mem)
  /\ LET m1 == [Mem EXCEPT !.key[p] = k,
                           !.parent[p] = NULL,
                           !.child[p] = [d \in 0..1 |-> NULL],
                           !.sibling[p] = [d \in 0..1 |-> p]]
         node == m1.children[bitscanr(k)]
     IN  /\ Write(m1)
         /\ thread' = [thread EXCEPT ![t] =
                         [pc |-> IF node = NULL THEN "attach" ELSE "lock",
                          call |-> "insert", item |-> p, node |-> node,
                          loaded |-> 0]]
  /\ UNCHANGED branch_mutex
  /\ ThreadFrame

\* l.459-460: the slot was read as empty; r goes into it.
InsertAttach(t) ==
  /\ thread[t].pc = "attach"
  /\ LET r == thread[t].item
         bitidx == SlotOf(t)
     IN  Write(head_set_child(set_parent_is_index(Mem, r, bitidx), bitidx, r))
  /\ thread' = At(t, "load")
  /\ UNCHANGED branch_mutex
  /\ ThreadFrame

\* l.468: the lock object is built; the thread waits for the mutex.
InsertLock(t) ==
  /\ thread[t].pc = "lock"
  /\ branch_mutex[SlotOf(t)] = 0
  /\ branch_mutex' = [branch_mutex EXCEPT ![SlotOf(t)] = t]
  /\ thread' = At(t, "walk")
  /\ UNCHANGED <<trie_count, trie_children, count_bits, ring_test_eq, trie_key,
                 trie_parent, trie_child, trie_sibling, trie_nobbledir,
                 nobble_direction, nobble_invoked>>
  /\ ThreadFrame

\* l.469-501 under the mutex, from the node read at l.457.
InsertDescend(t) ==
  /\ thread[t].pc = "walk"
  /\ LET m == InsertWalk(Mem, thread[t].item, thread[t].node, 2^SlotOf(t), Fuel)
     IN  IF m.stuck THEN Write(Mem) /\ thread' = At(t, "hung")
                    ELSE Write(m) /\ thread' = At(t, "load")
  /\ UNCHANGED branch_mutex
  /\ ThreadFrame

\* l.514: the lock object is built; then trieremove up to its decr_size.
RemoveLock(t, p) ==
  /\ thread[t] = Idle
  /\ p \in attached
  /\ ~HandedOut(p)
  /\ branch_mutex[bitscanr(trie_key[p])] = 0
  /\ branch_mutex' = [branch_mutex EXCEPT ![bitscanr(trie_key[p])] = t]
  /\ thread' = [thread EXCEPT ![t] =
                  [pc |-> "remove", call |-> "remove", item |-> p,
                   node |-> NULL, loaded |-> 0]]
  /\ UNCHANGED <<trie_count, trie_children, count_bits, ring_test_eq, trie_key,
                 trie_parent, trie_child, trie_sibling, trie_nobbledir,
                 nobble_direction, nobble_invoked>>
  /\ ThreadFrame

RemoveUnlink(t) ==
  /\ thread[t].pc = "remove"
  /\ \E nobbledir \in 0..1 :
       LET m == trieremove(Mem, thread[t].item, nobbledir)
       IN  IF m.stuck THEN Write(Mem) /\ thread' = At(t, "hung")
                      ELSE /\ Write([m EXCEPT !.count = trie_count])
                           /\ thread' = At(t, "load")
  /\ UNCHANGED branch_mutex
  /\ ThreadFrame

\* ++trie_count and --trie_count: the load ...
SizeLoad(t) ==
  /\ thread[t].pc = "load"
  /\ thread' = [thread EXCEPT ![t].pc = "store", ![t].loaded = trie_count]
  /\ UNCHANGED <<trie_count, trie_children, count_bits, ring_test_eq, trie_key,
                 trie_parent, trie_child, trie_sibling, trie_nobbledir,
                 nobble_direction, nobble_invoked, branch_mutex>>
  /\ ThreadFrame

\* ... and the store.
SizeStore(t) ==
  /\ thread[t].pc = "store"
  /\ LET m == [Mem EXCEPT !.count = thread[t].loaded]
     IN  Write(IF thread[t].call = "insert" THEN incr_size(m) ELSE decr_size(m))
  /\ thread' = At(t, IF \E b \in Slots : branch_mutex[b] = t
                       THEN "unlock" ELSE "return")
  /\ UNCHANGED branch_mutex
  /\ ThreadFrame

\* The lock object goes out of scope (l.389).
Unlock(t) ==
  /\ thread[t].pc = "unlock"
  /\ branch_mutex' = [b \in Slots |-> IF branch_mutex[b] = t THEN 0
                                                            ELSE branch_mutex[b]]
  /\ thread' = At(t, "return")
  /\ UNCHANGED <<trie_count, trie_children, count_bits, ring_test_eq, trie_key,
                 trie_parent, trie_child, trie_sibling, trie_nobbledir,
                 nobble_direction, nobble_invoked>>
  /\ ThreadFrame

\* The call returns: the item counts as attached, or no longer.
Return(t) ==
  /\ thread[t].pc = "return"
  /\ thread' = At(t, "done")
  /\ inserted' = IF thread[t].call = "insert"
                   THEN Append(inserted, thread[t].item)
                   ELSE Remove(inserted, thread[t].item)
  /\ UNCHANGED <<trie_count, trie_children, count_bits, ring_test_eq, trie_key,
                 trie_parent, trie_child, trie_sibling, trie_nobbledir,
                 nobble_direction, nobble_invoked, branch_mutex, ret, nops, op,
                 alt>>

NextThreads ==
  \/ \E p \in Items, k \in ThreadKeys : SetupInsert(p, k)
  \/ \E t \in Threads, p \in Items, k \in ThreadKeys : InsertBegin(t, p, k)
  \/ \E t \in Threads : InsertAttach(t)
  \/ \E t \in Threads : InsertLock(t)
  \/ \E t \in Threads : InsertDescend(t)
  \/ \E t \in Threads, p \in Items : RemoveLock(t, p)
  \/ \E t \in Threads : RemoveUnlink(t)
  \/ \E t \in Threads : SizeLoad(t)
  \/ \E t \in Threads : SizeStore(t)
  \/ \E t \in Threads : Unlock(t)
  \/ \E t \in Threads : Return(t)

SpecThreads == Init /\ [][NextThreads]_vars

\* --------------------------------------------- callers using keys 0 and 1
NextZeroOne ==
  \/ \E p \in Items, k \in 0..1 : Insert(p, k)
  \/ \E p \in Items : Erase(p)

SpecZeroOne == Init /\ [][NextZeroOne]_vars

\* ------------------------------------- the parent field alone (l.143-177)
CHAR_BIT == 8
UCHAR_MAX == 255
\* The bit indices of a key of eight bytes.
TagIndices == 0..(CHAR_BIT * CHAR_BIT - 1)

Tag(name, v, k, m) ==
  /\ nops < MaxTagOps
  /\ nops' = nops + 1
  /\ Store(m)
  /\ ret' = ret
  /\ op' = [Called(name, k) EXCEPT !.at = v]
  /\ UNCHANGED <<inserted, alt>>

SetParentIsIndex(v, b) ==
  Tag("set_parent_is_index", v, b, set_parent_is_index(Mem, v, b))
SetParent(v, x) == Tag("set_parent", v, x, set_parent(Mem, v, x))
SetIsSecondarySibling(v) ==
  Tag("set_is_secondary_sibling", v, 0, set_is_secondary_sibling(Mem, v))

NextTag ==
  \/ \E v \in Items, b \in TagIndices : SetParentIsIndex(v, b)
  \/ \E v \in Items, x \in Items \cup {NULL} : SetParent(v, x)
  \/ \E v \in Items : SetIsSecondarySibling(v)

SpecTag == Init /\ [][NextTag]_vars

\* ------------------------------------------------ the bit scan (l.48)
\* bitscanr takes a size_t. ScanBits is the width of size_t; the words of
\* the fallback are kept to that width.
\* A size_t of two bytes.
ScanBits == CHAR_BIT + CHAR_BIT
Word == 2^ScanBits
RECURSIVE BitAnd(_, _, _)
BitAnd(a, b, n) ==
  IF n = 0 THEN 0
  ELSE (a % 2) * (b % 2) + 2 * BitAnd(a \div 2, b \div 2, n - 1)
RECURSIVE BitOr(_, _, _)
BitOr(a, b, n) ==
  IF n = 0 THEN 0
  ELSE (IF a % 2 = 1 \/ b % 2 = 1 THEN 1 ELSE 0)
         + 2 * BitOr(a \div 2, b \div 2, n - 1)
And(a, b) == BitAnd(a, b, ScanBits)
Or(a, b) == BitOr(a, b, ScanBits)
Shr(x, n) == x \div 2^n
SIZE_MAX == Word - 1

\* l.88-104: the branch-free fallback: smear the highest set bit downwards,
\* complement, count the set bits, subtract from the width less one.
bitscanr_portable(value) ==
  LET x1 == Or(value, Shr(value, 1))
      x2 == Or(x1, Shr(x1, 2))
      x3 == Or(x2, Shr(x2, 4))
      x4 == Or(x3, Shr(x3, 8))
      x5 == IF 16 < ScanBits THEN Or(x4, Shr(x4, 16)) ELSE x4
      x6 == IF 32 < ScanBits THEN Or(x5, Shr(x5, 32)) ELSE x5
      x7 == SIZE_MAX - x6
      x8 == (x7 + Word - And(Shr(x7, 1), SIZE_MAX \div 3)) % Word
      x9 == (And(x8, (SIZE_MAX \div 15) * 3)
               + And(Shr(x8, 2), (SIZE_MAX \div 15) * 3)) % Word
      x10 == (And((x9 + Shr(x9, 4)) % Word, (SIZE_MAX \div UCHAR_MAX) * 15)
                * (SIZE_MAX \div UCHAR_MAX)) % Word
  IN  IF value = 0 THEN 0
      ELSE (ScanBits - 1 + Word - Shr(x10, ScanBits - CHAR_BIT)) % Word

\* l.50-62: _BitScanReverse / _BitScanReverse64, asserted to have size_t's
\* width: the position of the highest set bit.
bitscanr_msvc(value) ==
  IF value = 0 THEN 0 ELSE ScanBits - 1 - clzl(value, ScanBits)

\* l.64: sizeof(value) * CHAR_BIT - 1 - __builtin_clzl(value). The builtin
\* takes an unsigned long, of longbits bits: the argument is converted to
\* that width, and the builtin's result for 0 is undefined (undef stands for
\* the value it then yields).
bitscanr_gnuc(value, longbits, undef) ==
  LET arg == value % 2^longbits
  IN  IF value = 0 THEN 0
      ELSE IF arg = 0 THEN (ScanBits - 1 + Word - undef) % Word
      ELSE ScanBits - 1 - clzl(arg, longbits)

\* The widths unsigned long has next to a size_t of ScanBits bits: the same
\* (LP64, ILP32) or half of it (LLP64).
LongBits == {ScanBits, ScanBits \div 2}

ScanValues == 0..SIZE_MAX
Branches == {"msvc", "gnuc", "portable"}

\* Before the call: op holds the argument, the branch of l.52-105 the build
\* compiled and the build's width of unsigned long.
InitScan ==
  /\ InitMemory
  /\ ring_test_eq
  /\ InitNobble
  /\ count_bits = CountBitsWide
  /\ \E v \in ScanValues, br \in Branches, lb \in LongBits :
       /\ br # "gnuc" => lb = ScanBits
       /\ op = [name |-> "argument", key |-> v, size |-> 0, at |-> NULL,
                hooks |-> <<>>, nobbled |-> <<>>, branch |-> br,
                longbits |-> lb]

\* The call: ret is its value.
Scan(branch, result) ==
  /\ op.name = "argument"
  /\ op.branch = branch
  /\ ret' = result
  /\ op' = [op EXCEPT !.name = "bitscanr"]
  /\ UNCHANGED <<trie_count, trie_children, count_bits, ring_test_eq, trie_key,
                 trie_parent, trie_child, trie_sibling, inserted, alt, nops,
                 trie_nobbledir, nobble_direction, nobble_invoked, thread,
                 branch_mutex>>

ScanMsvc == Scan("msvc", bitscanr_msvc(op.key))
ScanGnuc(undef) == Scan("gnuc", bitscanr_gnuc(op.key, op.longbits, undef))
ScanPortable == Scan("portable", bitscanr_portable(op.key))

NextScan ==
  \/ ScanMsvc
  \/ \E u \in 0..1 : ScanGnuc(u * op.longbits)
  \/ ScanPortable

SpecScan == InitScan /\ [][NextScan]_vars

\* ------------------------------------------- the debug assertions
\* Whether a call would fail an assert of a build without NDEBUG.
\* parent() asserts that the parent field holds no index tag (l.145, l.150).
parent_trips(m, v) == parent_is_index(m, v)

\* _triebranchnext asserts at l.754 that the child it steps to has the tree
\* node as its parent, reading it through parent().
_triebranchnext_trips(m, r) ==
  LET s == m.sibling[r][1]
  IN  IF s # NULL /\ ~IsItem(s) THEN FALSE
      ELSE IF s # NULL /\ ~is_primary_sibling(m, s) THEN FALSE
      ELSE LET r1 == BackToTreeNode(m, r, Fuel)
           IN  IF r1 = CRASH THEN FALSE
               ELSE LET node == IF m.child[r1][0] # NULL THEN m.child[r1][0]
                                                          ELSE m.child[r1][1]
                    IN  /\ IsItem(node)
                        /\ (parent_trips(m, node) \/ m.parent[node] # r1)

\* trieremove asserts rlink.parent() == nullptr for a secondary (l.519) and
\* rlink.parent() != nullptr for a primary (l.530), both through parent().
trieremove_trips(m, r) ==
  IF is_secondary_sibling(m, r)
    THEN parent_trips(m, r) \/ m.parent[r] # NULL
    ELSE parent_trips(m, r) \/ m.parent[r] = NULL

\* erase(it) of l.1242: operator++ on the copy, then trieremove.
erase_trips(m, p) == _triebranchnext_trips(m, p) \/ trieremove_trips(m, p)

\* _trieinsert asserts bitidx < _key_type_bits (l.460).
insert_trips(k) == ~(bitscanr(k) < KeyBits)

\* ------------------------------------------------------- derived notions
AttachedWithKey(k) == {v \in attached : trie_key[v] = k}

\* Everything that can be reached from the head array through child links
\* and sibling links (either direction).
RECURSIVE Closure(_, _)
Closure(m, S) ==
  LET T == S \cup {x \in Items : \E v \in S, d \in 0..1 :
                      x = m.child[v][d] \/ x = m.sibling[v][d]}
  IN  IF T = S THEN S ELSE Closure(m, T)

Reachable(m) == Closure(m, {m.children[b] : b \in Slots} \cap Items)

\* The members of x's ring following sibling[1], up to the return to x
\* (CRASH in the set when the walk does not come back).
RECURSIVE RingFrom(_, _, _, _)
RingFrom(m, x, i, fuel) ==
  IF i = x THEN {x}
  ELSE IF fuel = 0 \/ ~IsItem(i) THEN {CRASH}
  ELSE {i} \cup RingFrom(m, x, m.sibling[i][1], fuel - 1)

Ring(m, x) == RingFrom(m, x, m.sibling[x][1], Fuel)

\* Depth of a primary below its head slot (CRASH when the parent chain does
\* not end at the head array).
RECURSIVE Depth(_, _, _)
Depth(m, x, fuel) ==
  IF fuel = 0 \/ ~IsItem(x) \/ m.parent[x] = NULL THEN CRASH
  ELSE IF parent_is_index(m, x) THEN 0
  ELSE LET d == Depth(m, m.parent[x], fuel - 1)
       IN  IF d = CRASH THEN CRASH ELSE d + 1

\* x is a proper trie ancestor of y.
RECURSIVE IsAncestor(_, _, _, _)
IsAncestor(m, x, y, fuel) ==
  /\ fuel > 0 /\ IsItem(y) /\ IsItem(m.parent[y])
  /\ (m.parent[y] = x \/ IsAncestor(m, x, m.parent[y], fuel - 1))

\* The bit of key k at position pos; below position 0 the insert descent
\* tests against a zero mask and takes child[0].
KeyBit(k, pos) == IF pos < 0 THEN 0 ELSE (k \div 2^pos) % 2

\* The items that hang from the head array by child links.
TreeNodes(m) == UNION {NodesWithin(m, m.children[b], Fuel) : b \in Slots}

\* The links, as found from the head array, are those of a bitwise trie with
\* sibling rings: head items carry their slot's tag and top bit, a child
\* hangs under the slot its key bit selects and points back at its parent,
\* and the ring walked from a tree node returns to it through secondaries
\* of the same key.
LinksWellFormed ==
  /\ \A b \in Slots :
       trie_children[b] # NULL =>
         /\ IsItem(trie_children[b])
         /\ trie_parent[trie_children[b]] = b * 4 + 3
         /\ bitscanr(trie_key[trie_children[b]]) = b
  /\ \A x \in TreeNodes(Mem), d \in 0..1 :
       LET c == trie_child[x][d]
       IN  c # NULL =>
             /\ IsItem(c)
             /\ trie_parent[c] = x
             /\ Depth(Mem, c, Fuel) # CRASH
             /\ bitscanr(trie_key[c]) = bitscanr(trie_key[x])
             /\ KeyBit(trie_key[c], bitscanr(trie_key[c]) - Depth(Mem, c, Fuel)) = d
  /\ \A x \in TreeNodes(Mem) :
       \A s \in Ring(Mem, x) \ {x} :
         /\ IsItem(s)
         /\ is_secondary_sibling(Mem, s)
         /\ trie_key[s] = trie_key[x]

\* Invariants 1-5 of the data model.
Invariant1 ==
  \A k \in Keys :
    AttachedWithKey(k) # {} =>
      Cardinality({v \in AttachedWithKey(k) : is_primary_sibling(Mem, v)}) = 1
Invariant2 ==
  \A x \in attached :
    /\ Ring(Mem, x) = AttachedWithKey(trie_key[x])
    /\ \A d \in 0..1 : IsItem(trie_sibling[x][d])
    /\ trie_sibling[trie_sibling[x][1]][0] = x
    /\ trie_sibling[trie_sibling[x][0]][1] = x
Invariant3 ==
  \A x \in attached :
    (is_primary_sibling(Mem, x) /\ ~parent_is_index(Mem, x)) =>
      LET d == Depth(Mem, x, Fuel)
          b == bitscanr(trie_key[x])
      IN  /\ d # CRASH
          /\ trie_child[trie_parent[x]][KeyBit(trie_key[x], b - d)] = x
Invariant4 ==
  \A b \in Slots :
    trie_children[b] # NULL =>
      /\ IsItem(trie_children[b])
      /\ bitscanr(trie_key[trie_children[b]]) = b
Invariant5 == trie_count = Cardinality(Reachable(Mem))
Invariants1to5 ==
  Invariant1 /\ Invariant2 /\ Invariant3 /\ Invariant4 /\ Invariant5

\* ------------------------------------------------------------------ claims

\* C1: for every key k, find(k) returns an item and contains(k) is true iff
\* some attached item has key k, and the item found has key exactly k.
C1_FindIffAttached ==
  \A k \in Keys :
    /\ (find(Mem, k) # NULL) = (AttachedWithKey(k) # {})
    /\ contains(Mem, k) = (AttachedWithKey(k) # {})
    /\ find(Mem, k) # NULL => (find(Mem, k) \in Items /\ trie_key[find(Mem, k)] = k)

\* C2: after every completed insert or erase, head.count is the number of
\* items reachable from the head array through child links and sibling rings.
C2_CountIsReachable == trie_count = Cardinality(Reachable(Mem))

\* C3: count(k) is the number of attached items with key k, and the items
\* with key k form a circular ring.
C3_CountIsRingSize ==
  \A k \in Keys :
    /\ count(Mem, k) = Cardinality(AttachedWithKey(k))
    /\ \A x \in AttachedWithKey(k) : Ring(Mem, x) = AttachedWithKey(k)

\* C4: nearest_find(k) returns an item whose key is the minimum key >= k among
\* the attached items, and not-found iff no attached item has key >= k.
C4_NearestIsMinimum ==
  \A k \in Keys :
    LET ge == {v \in attached : trie_key[v] >= k}
        n == nearest_find(Mem, k)
    IN  /\ (n = NULL) = (ge = {})
        /\ n # NULL => (n \in ge /\ \A w \in ge : trie_key[n] <= trie_key[w])

\* C5: close_find(k, rounds) returns not-found or an attached item whose key
\* is >= k, examining at most `rounds` levels of descent.
C5_CloseFindNotBelow ==
  \A k \in Keys, rounds \in 0..KeyBits :
    LET c == close_find(Mem, k, rounds)
    IN  c # NULL =>
          /\ c \in attached
          /\ trie_key[c] >= k
          /\ c \in NodesWithin(Mem, trie_children[bitscanr(trie_key[c])], rounds)

\* C6: insert when size() == max_size() fails: it returns end(), size() stays
\* at max_size(), no housekeeping field is written and the index is as before.
InsertStep == nops' = nops + 1 /\ attached \subseteq attached'
C6_InsertAtMaxFails ==
  [][(InsertStep /\ trie_count = max_size(Mem)) =>
          /\ ret' = NULL
          /\ trie_count' = max_size(Mem)
          /\ UNCHANGED <<trie_children, trie_parent, trie_child, trie_sibling,
                         inserted>>]_vars
C6_Witness ==
  /\ nops > 0 /\ ret = NULL
  /\ trie_count = max_size(Mem) /\ attached # {} /\ attached # Items

\* C7: through any sequence of inserts and removals size() tracks the items
\* attached, and invariants 1-5 hold after every operation.
C7_RoundTrip == trie_count = Cardinality(attached) /\ Invariants1to5

\* C8: in forward traversal the attached items sharing one key appear
\* contiguously and in the order they were inserted.
WithKey(s, k) == SelectSeq(s, LAMBDA v : v \in Items /\ trie_key[v] = k)
C8_EqualKeysInInsertionOrder ==
  LET f == Forward(Mem)
  IN  \A k \in Keys :
        /\ WithKey(f, k) = WithKey(inserted, k)
        /\ \A i, j \in 1..Len(f) :
             (i < j /\ f[i] \in Items /\ f[j] \in Items
                /\ trie_key[f[i]] = k /\ trie_key[f[j]] = k) =>
               \A n \in i..j : f[n] \in Items /\ trie_key[f[n]] = k

\* C9: forward traversal restricted to the items of one head-array branch
\* yields a non-decreasing sequence of keys.
SameBranch(x, y) == bitscanr(trie_key[x]) = bitscanr(trie_key[y])
SameHighestSetBit(x, y) ==
  trie_key[x] > 0 /\ trie_key[y] > 0 /\ SameBranch(x, y)
C10_ForwardVisitsAll ==
  LET f == Forward(Mem)
  IN  /\ Len(f) = trie_count
      /\ Range(f) = attached
      /\ \A i, j \in 1..Len(f) : f[i] = f[j] => i = j

\* C11: backward traversal from _triemax by prev reaches the not-found marker
\* after exactly size() steps, visits every attached item exactly once and
\* never dereferences an unset parent (no CRASH in the walk).
C11_BackwardVisitsAll ==
  LET b == Backward(Mem)
  IN  /\ Len(b) = trie_count
      /\ Range(b) = attached
      /\ \A i, j \in 1..Len(b) : b[i] = b[j] => i = j

\* C12: for each key present exactly one attached item is primary; every
\* other attached item with that key is secondary, its parent unset, both
\* child fields empty, and it hangs from no head slot and no child link.
C12_OnePrimaryPerKey ==
  \A k \in Keys :
    AttachedWithKey(k) # {} =>
      /\ Cardinality({v \in AttachedWithKey(k) : is_primary_sibling(Mem, v)}) = 1
      /\ \A v \in AttachedWithKey(k) :
           is_secondary_sibling(Mem, v) =>
             /\ trie_child[v][0] = NULL /\ trie_child[v][1] = NULL
             /\ \A b \in Slots : trie_children[b] # v
             /\ \A x \in attached, d \in 0..1 : trie_child[x][d] # v

\* C13: for every attached item x, following sibling[1] from x visits exactly
\* the attached items with x's key and returns to x, and sibling[0] is the
\* exact inverse of sibling[1].
C13_RingCircularAndInverse ==
  \A x \in attached :
    /\ Ring(Mem, x) = AttachedWithKey(trie_key[x])
    /\ IsItem(trie_sibling[x][1]) /\ IsItem(trie_sibling[x][0])
    /\ trie_sibling[trie_sibling[x][1]][0] = x
    /\ trie_sibling[trie_sibling[x][0]][1] = x

\* C14: every attached primary that is not head-attached hangs from its
\* parent under the child slot given by the bit of its key at position
\* (head bit of its branch minus its depth).
C14_ChildSlotIsKeyBit ==
  \A x \in attached :
    (is_primary_sibling(Mem, x) /\ ~parent_is_index(Mem, x)) =>
      LET d == Depth(Mem, x, Fuel)
      IN  /\ d # CRASH
          /\ trie_child[trie_parent[x]][KeyBit(trie_key[x], bitscanr(trie_key[x]) - d)] = x

\* C15: head slot b is non-empty only if it holds an item whose key's highest
\* set bit is b, and every item in the subtree under slot b has a key in
\* [2^b, 2^(b+1)); key 0 is counted as a key of slot 0, where bitscanr puts
\* it, so the range is stated as bitscanr(key) = b.
C15_SlotIsBitscanr ==
  \A b \in Slots :
    trie_children[b] # NULL =>
      /\ IsItem(trie_children[b])
      /\ \A x \in NodesWithin(Mem, trie_children[b], Fuel) :
           bitscanr(trie_key[x]) = b

\* C16: the nobble direction does not affect correctness: given the same
\* inserts and erases, an index run under another direction policy completes
\* every call and has the same size(), the same results of insert and the
\* same find(k), count(k) and nearest_find(k) for every k.
C16_NobbleIndependent ==
  /\ ~alt.hung
  /\ alt.count = trie_count
  /\ alt.ret = ret
  /\ \A k \in Keys :
       /\ find(AltMem, k) = find(Mem, k)
       /\ count(AltMem, k) = count(Mem, k)
       /\ nearest_find(AltMem, k) = nearest_find(Mem, k)

\* C17: after clear() the size is 0 and every head slot is empty, so that
\* find, contains and count report nothing for every key and begin() equals
\* end(); and clear() writes no field of any item.
C17_ClearEmpties ==
  /\ [](op.name = "clear" =>
          /\ trie_count = 0
          /\ \A b \in Slots : trie_children[b] = NULL
          /\ \A k \in Keys : /\ find(Mem, k) = NULL
                             /\ ~contains(Mem, k)
                             /\ count(Mem, k) = 0
          /\ _triemin(Mem) = NULL
          /\ Forward(Mem) = <<>>)
  /\ [][op'.name = "clear" =>
          UNCHANGED <<trie_key, trie_parent, trie_child, trie_sibling>>]_vars

\* clear() was called on an index of two or more items, one of them below
\* another, and the items still carry the links they had.
C17_Witness ==
  /\ op.name = "clear"
  /\ op.size >= 2
  /\ \E v \in Items : parent_is_index(Mem, v) /\ trie_child[v] # [d \in 0..1 |-> NULL]

C19_AbortOnlyWhenMissing ==
  /\ op.name \in {"front", "back"} =>
       IF attached = {} THEN ret = ABORT ELSE ret \in attached
  /\ op.name = "operator[]" =>
       IF AttachedWithKey(op.key) = {} THEN ret = ABORT
       ELSE ret \in AttachedWithKey(op.key)
  /\ op.name = "operator*" =>
       IF op.at = NULL THEN ret = ABORT ELSE ret = op.at

\* The half of C19 about the empty index, the missing key and end().
C19_AbortWhenMissing ==
  /\ op.name \in {"front", "back"} /\ attached = {} => ret = ABORT
  /\ op.name = "operator[]" /\ AttachedWithKey(op.key) = {} => ret = ABORT
  /\ op.name = "operator*" /\ op.at = NULL => ret = ABORT

\* C20: erase(k) for a key no attached item has leaves the size, the head
\* slots and every item as they were and dereferences nothing; erase(k) for
\* a key some attached item has detaches exactly one item with key k and
\* lowers the size by 1.
C20_EraseKeySafe ==
  [][op'.name = "erase(k)" =>
       IF AttachedWithKey(op'.key) = {}
         THEN /\ ret' # CRASH
              /\ UNCHANGED <<trie_count, trie_children, trie_key, trie_parent,
                             trie_child, trie_sibling, inserted>>
         ELSE /\ \E v \in AttachedWithKey(op'.key) : inserted' = Remove(inserted, v)
              /\ trie_count' = trie_count - 1]_vars

\* The half of C20 about a key that is present.
C20_EraseKeyPresent ==
  [][op'.name = "erase(k)" /\ AttachedWithKey(op'.key) # {} =>
       /\ \E v \in AttachedWithKey(op'.key) : inserted' = Remove(inserted, v)
       /\ trie_count' = trie_count - 1]_vars

\* C22: erase(x) followed at once by insert(x) with the same key succeeds,
\* brings size() back to what it was before the erase, has x attached again
\* with its key, and leaves invariants 1-5 holding, whatever erase left in
\* x's fields.
C22_ReuseAfterErase ==
  [][op.name = "erase" /\ op'.name = "insert" /\ op'.at = op.at
       /\ op'.key = op.key =>
       /\ ret' = op.at
       /\ trie_count' = op.size
       /\ op.at \in attached'
       /\ \A k \in Keys :
            Cardinality(AttachedWithKey(k)') =
              Cardinality(AttachedWithKey(k)) + B2N(k = op.key)
       /\ Invariants1to5']_vars

\* The part of C22 that does not rest on the invariants: the insert succeeds
\* and the size and the attached keys are those before the erase.
C22_ReuseRestoresSize ==
  [][op.name = "erase" /\ op'.name = "insert" /\ op'.at = op.at
       /\ op'.key = op.key =>
       /\ ret' = op.at
       /\ trie_count' = op.size
       /\ op.at \in attached'
       /\ \A k \in Keys :
            Cardinality(AttachedWithKey(k)') =
              Cardinality(AttachedWithKey(k)) + B2N(k = op.key)]_vars

\* C23: with only keys 0 and 1 in use, an item with key 0 hangs under head
\* slot 0 like an item with key 1, find(0) and find(1) return an attached
\* item of exactly that key when there is one and nothing otherwise, count
\* is the number of attached items of the key, and invariants 1-5 hold.
C23_KeyZeroLikeKeyOne ==
  /\ \A b \in Slots \ {0} : trie_children[b] = NULL
  /\ attached # {} => trie_children[0] \in attached
  /\ \A k \in 0..1 :
       /\ IF AttachedWithKey(k) = {} THEN find(Mem, k) = NULL
          ELSE find(Mem, k) \in AttachedWithKey(k)
       /\ count(Mem, k) = Cardinality(AttachedWithKey(k))
  /\ Invariants1to5

\* C24: erase of a primary r whose key other attached items share promotes
\* s = r's sibling(1): afterwards s holds r's former parent value and sits in
\* the head slot or parent child-slot r sat in, r's former children are s's
\* children and point at s, r is not in s's ring, and every item of r's
\* subtrees is still reachable from the head array.
C24_PromotionTakesOverChildren ==
  [][op'.name = "erase" /\ is_primary_sibling(Mem, op'.at)
       /\ Cardinality(AttachedWithKey(trie_key[op'.at])) > 1 =>
       LET r == op'.at
           s == trie_sibling[r][1]
       IN  /\ s # r
           /\ trie_parent'[s] = trie_parent[r]
           /\ IF parent_is_index(Mem, r)
                THEN trie_children'[bit_index(Mem, r)] = s
                ELSE \E d \in 0..1 : /\ trie_child[trie_parent[r]][d] = r
                                     /\ trie_child'[trie_parent[r]][d] = s
           /\ \A d \in 0..1 :
                /\ trie_child'[s][d] = trie_child[r][d]
                /\ trie_child[r][d] # NULL => trie_parent'[trie_child[r][d]] = s
           /\ r \notin Ring(Mem', s)
           /\ (NodesWithin(Mem, r, Fuel) \ {r}) \subseteq Reachable(Mem')]_vars

\* The descendant a descent from x ends at when it prefers child[dir] at
\* every step and takes the other child only where child[dir] is absent.
RECURSIVE PreferredLeaf(_, _, _)
PreferredLeaf(x, dir, fuel) ==
  IF fuel = 0 \/ ~IsItem(x) THEN CRASH
  ELSE IF trie_child[x][dir] # NULL
    THEN PreferredLeaf(trie_child[x][dir], dir, fuel - 1)
  ELSE IF trie_child[x][1 - dir] # NULL
    THEN PreferredLeaf(trie_child[x][1 - dir], dir, fuel - 1)
  ELSE x

\* C25 (step): erase of a primary r that has a child and is alone in its
\* ring puts in r's place the childless descendant n the preferring descent ends at,
\* for one of the two directions: n is taken off its own parent, gets r's
\* parent value and r's head slot or parent child-slot, r's other children
\* become n's children and point at n, n's sibling links and ring are
\* untouched, and no item other than r stops being reachable from the head.
C25_ReplacementStep ==
  [][op'.name = "erase" /\ is_primary_sibling(Mem, op'.at)
       /\ trie_sibling[op'.at] = [d \in 0..1 |-> op'.at]
       /\ trie_child[op'.at] # [d \in 0..1 |-> NULL] =>
       LET r == op'.at
       IN  \E dir \in 0..1 :
             LET n == PreferredLeaf(r, dir, Fuel)
             IN  /\ IsItem(n) /\ n # r
                 /\ n \in NodesWithin(Mem, r, Fuel)
                 /\ trie_child[n] = [d \in 0..1 |-> NULL]
                 /\ trie_parent[n] # r =>
                      \A d \in 0..1 : trie_child'[trie_parent[n]][d] # n
                 /\ trie_parent'[n] = trie_parent[r]
                 /\ IF parent_is_index(Mem, r)
                      THEN trie_children'[bit_index(Mem, r)] = n
                      ELSE \E d \in 0..1 : /\ trie_child[trie_parent[r]][d] = r
                                           /\ trie_child'[trie_parent[r]][d] = n
                 /\ \A d \in 0..1 :
                      LET c == trie_child[r][d]
                      IN  IF c = n \/ c = NULL THEN trie_child'[n][d] = NULL
                          ELSE trie_child'[n][d] = c /\ trie_parent'[c] = n
                 /\ trie_sibling'[n] = trie_sibling[n]
                 /\ Ring(Mem', n) = Ring(Mem, n)
                 /\ (Reachable(Mem) \ {r}) \subseteq Reachable(Mem')
                 /\ trie_count' = trie_count - 1]_vars

C25_ReplacementSearchEnds ==
  \A r \in attached, dir \in 0..1 :
    (/\ is_primary_sibling(Mem, r)
     /\ trie_sibling[r] = [d \in 0..1 |-> r]
     /\ trie_child[r] # [d \in 0..1 |-> NULL]) => ~trieremove(Mem, r, dir).stuck

C26_SecondaryRemovalFrame ==
  [][op'.name = "erase" /\ is_secondary_sibling(Mem, op'.at) =>
       LET r == op'.at
       IN  /\ trie_count' = trie_count - 1
           /\ UNCHANGED <<trie_children, trie_parent, trie_child, trie_key>>
           /\ \A v \in Items \ {trie_sibling[r][0], trie_sibling[r][1]} :
                trie_sibling'[v] = trie_sibling[v]
           /\ trie_sibling'[trie_sibling[r][0]][1] = trie_sibling[r][1]
           /\ trie_sibling'[trie_sibling[r][1]][0] = trie_sibling[r][0]
           /\ \A k \in Keys : find(Mem', k) = find(Mem, k)
           /\ {v \in attached' : is_primary_sibling(Mem', v)} =
                {v \in attached : is_primary_sibling(Mem, v)}]_vars

\* A secondary sibling has just been erased from a ring of three.
C26_Witness ==
  /\ op.name = "erase"
  /\ is_secondary_sibling(Mem, op.at)
  /\ op.size = MaxItems
  /\ Cardinality(AttachedWithKey(op.key)) = MaxItems - 1

\* The secondary siblings that follow x by sibling[1] links.
RECURSIVE SecondariesAfter(_, _)
SecondariesAfter(x, fuel) ==
  LET n == trie_sibling[x][1]
  IN  IF fuel = 0 \/ ~IsItem(n) \/ ~is_secondary_sibling(Mem, n) THEN {}
      ELSE {n} \cup SecondariesAfter(n, fuel - 1)

\* The items under head slot b: those hanging from it by child links, and
\* the secondary siblings that follow them.
Under(b) ==
  LET T == NodesWithin(Mem, trie_children[b], Fuel)
  IN  T \cup UNION {SecondariesAfter(x, Fuel) : x \in T}

\* C30: in the forward traversal no item under a higher head slot comes
\* before an item under a lower one, items of different slots come in
\* ascending key order, and from an item whose branch is exhausted next goes
\* to the item of the next populated higher head slot, or to end() when
\* there is none.
C30_BranchesInAscendingOrder ==
  LET f == Forward(Mem)
  IN  /\ \A i, j \in 1..Len(f) :
           (i < j /\ IsItem(f[i]) /\ IsItem(f[j])) =>
             \A b, c \in Slots :
               (f[i] \in Under(b) /\ f[j] \in Under(c) /\ b # c) =>
                 /\ b < c
                 /\ trie_key[f[i]] < trie_key[f[j]]
      /\ \A p \in attached :
           _triebranchnext(Mem, p).node = NULL =>
             LET b == bit_index(Mem, _triebranchnext(Mem, p).rlink)
                 higher == {c \in Slots : c > b /\ trie_children[c] # NULL}
             IN  IF higher = {} THEN _trienext(Mem, p) = NULL
                 ELSE _trienext(Mem, p) =
                        trie_children[CHOOSE c \in higher : \A e \in higher : c <= e]


\* C28: every lock_branch call an operation makes is followed, before the
\* operation returns, by exactly one unlock_branch call handed the token that
\* lock_branch returned; the exclusive flag lock_branch received is the one
\* unlock_branch receives, and it is true for insert and remove and false
\* for max, next and prev, for every key and every hint, 0 included.
C28_LockHooksMatched ==
  LET h == op.hooks
  IN  ret # CRASH =>
        /\ Len(h) % 2 = 0
        /\ \A i \in 1..Len(h) : i % 2 = 1 =>
             /\ h[i].hook = "lock_branch"
             /\ h[i + 1].hook = "unlock_branch"
             /\ h[i + 1].token = h[i].token
             /\ h[i + 1].exclusive = h[i].exclusive
             /\ h[i].exclusive = (h[i].by \in {"insert", "remove"})

\* The pairing alone: one unlock_branch per lock_branch, with its token.
C28_LocksPaired ==
  LET h == op.hooks
  IN  ret # CRASH =>
        /\ Len(h) % 2 = 0
        /\ \A i \in 1..Len(h) : i % 2 = 1 =>
             /\ h[i].hook = "lock_branch"
             /\ h[i + 1].hook = "unlock_branch"
             /\ h[i + 1].token = h[i].token
             /\ h[i + 1].by = h[i].by

\* C27: a removal that reaches the replacement case reads one direction, the
\* value its nobble policy yields: under NobbleDir = 0 the stored flag is
\* flipped exactly once and the flipped value is the direction used (so two
\* such removals in a row use opposite directions), under NobbleDir = -1 the
\* direction is child 0 and under NobbleDir = 1 child 1; removals in the
\* other cases, inserts and finds leave the stored flag as it was.
C27_NobbleFollowsPolicy ==
  [][IF op'.name = "erase" /\ ReachesReplacement(Mem, op'.at)
       THEN /\ op'.nobbled = <<nobble_function_implementation(Mem).yields>>
            /\ trie_nobbledir' = nobble_function_implementation(Mem).m.nobbledir
       ELSE trie_nobbledir' = trie_nobbledir]_vars

\* The half about the other operations: only a removal that reaches the
\* replacement case changes the stored flag.
C27_FlagOnlyChangedByReplacement ==
  [][~(op'.name = "erase" /\ ReachesReplacement(Mem, op'.at))
       => trie_nobbledir' = trie_nobbledir]_vars

Returned(t) == thread[t].pc = "done"

\* C21: two threads, each inserting or erasing a key, the two keys with
\* different highest set bits, leave invariants 1-5 holding once both calls
\* have returned; the head count equals the number of attached items.
C21_DifferentBranchesKeepInvariants ==
  (\A t \in Threads : Returned(t)) /\ SlotOf(1) # SlotOf(2)
    => Invariants1to5 /\ trie_count = Cardinality(attached)

\* C29: two threads inserting distinct items whose keys have the same highest
\* set bit leave both items attached and size() two larger, also when the
\* head slot of that bit was empty at the start.
C29_SameBranchInsertsBothAttach ==
  /\ \A t \in Threads : Returned(t) /\ thread[t].call = "insert"
  /\ SlotOf(1) = SlotOf(2)
  => /\ \A t \in Threads : thread[t].item \in Reachable(Mem)
     /\ trie_count = Cardinality(attached)

\* The part of it behind the mutex: when both threads read the head slot as
\* occupied and no two attached items share a key, both items end up
\* attached and counted.
C29_LockedInsertsBothAttach ==
  /\ \A t \in Threads :
       Returned(t) /\ thread[t].call = "insert" /\ thread[t].node # NULL
  /\ SlotOf(1) = SlotOf(2)
  /\ \A v, w \in attached : trie_key[v] = trie_key[w] => v = w
  => /\ \A t \in Threads : thread[t].item \in Reachable(Mem)
     /\ trie_count = Cardinality(attached)

C29_LockedWitness ==
  /\ \A t \in Threads :
       Returned(t) /\ thread[t].call = "insert" /\ thread[t].node # NULL
  /\ SlotOf(1) = SlotOf(2)
  /\ \A v, w \in attached : trie_key[v] = trie_key[w] => v = w

\* The position of the highest set bit of v, by its definition.
HighestSetBit(v) == CHOOSE n \in 0..(ScanBits - 1) : 2^n <= v /\ v < 2^(n + 1)

\* C39: bitscanr(v) is the position of the highest set bit of v for every
\* v in 1..2^w-1, in every build, and bitscanr(0) is 0; the branch-free
\* fallback returns the same value for every v > 0.
C39_BitscanrIsHighestSetBit ==
  op.name = "bitscanr" =>
    /\ op.key = 0 => ret = 0
    /\ op.key > 0 => 2^ret <= op.key /\ op.key < 2^(ret + 1)
    /\ op.key > 0 => bitscanr_portable(op.key) = ret

\* The same in the builds whose unsigned long is as wide as size_t.
C39_BitscanrWithWideLong ==
  op.name = "bitscanr" /\ op.longbits = ScanBits =>
    /\ op.key = 0 => ret = 0
    /\ op.key > 0 => ret = HighestSetBit(op.key)
    /\ op.key > 0 => bitscanr_portable(op.key) = ret

\* C38: the parent tag round-trips: after set_parent_is_index(b), for every
\* bit index b, parent_is_index() is true, bit_index() is b and
\* is_primary_sibling() is true (b = 0 included: its tag is not the unset
\* value); after set_parent of an item reference or of the unset value, and
\* after set_is_secondary_sibling, parent_is_index() is false.
C38_ParentTagRoundTrips ==
  /\ op.name = "set_parent_is_index" =>
       /\ parent_is_index(Mem, op.at)
       /\ bit_index(Mem, op.at) = op.key
       /\ is_primary_sibling(Mem, op.at)
       /\ trie_parent[op.at] # NULL
  /\ op.name \in {"set_parent", "set_is_secondary_sibling"} =>
       ~parent_is_index(Mem, op.at)

C38_Witness ==
  /\ op.name = "set_parent_is_index"
  /\ op.key = 0
  /\ parent_is_index(Mem, op.at)
  /\ nops = MaxTagOps

\* C32: parent and child links agree in every reachable state: the item in a
\* non-empty head slot n carries the index tag with bit index n; every other
\* attached primary has a parent that is an attached primary with exactly
\* one of its two child slots holding the item; every non-empty child slot
\* of an attached primary holds a primary whose parent is that node.
C32_ParentChildConsistent ==
  /\ \A n \in Slots :
       trie_children[n] # NULL =>
         /\ IsItem(trie_children[n])
         /\ parent_is_index(Mem, trie_children[n])
         /\ bit_index(Mem, trie_children[n]) = n
  /\ \A x \in attached :
       (is_primary_sibling(Mem, x) /\ \A n \in Slots : trie_children[n] # x) =>
         LET p == trie_parent[x]
         IN  /\ IsItem(p)
             /\ p \in attached
             /\ is_primary_sibling(Mem, p)
             /\ (trie_child[p][0] = x) # (trie_child[p][1] = x)
  /\ \A x \in attached, d \in 0..1 :
       (is_primary_sibling(Mem, x) /\ trie_child[x][d] # NULL) =>
         /\ IsItem(trie_child[x][d])
         /\ is_primary_sibling(Mem, trie_child[x][d])
         /\ trie_parent[trie_child[x][d]] = x

\* C33: no insert of an unattached item and no erase of an attached item
\* fails a debug assertion; in particular erasing a primary that sits in a
\* head slot fails neither the assertion in parent() nor those of trieremove.
C33_NoAssertionFails ==
  [][/\ op'.name = "insert" => ~insert_trips(op'.key)
     /\ op'.name = "erase" => ~erase_trips(Mem, op'.at)]_vars

\* The same for every item but those in a head slot.
C33_NoAssertionFailsBelowHead ==
  [][/\ op'.name = "insert" => ~insert_trips(op'.key)
     /\ (op'.name = "erase" /\ ~parent_is_index(Mem, op'.at))
          => ~erase_trips(Mem, op'.at)]_vars

\* --------------------------------------------------- C31: next against prev
Reverse(f) == [i \in 1..Len(f) |-> f[Len(f) + 1 - i]]

\* C31: _trienext and _trieprev are inverse on attached items (next(x) = y
\* with y an item implies prev(y) = x), _triemax is the last item of the
\* forward traversal, and the backward traversal from it is the exact
\* reverse of the forward one, rings of equal keys included.
C31_NextPrevInverse ==
  LET f == Forward(Mem)
  IN  /\ \A x \in attached :
           LET y == _trienext(Mem, x)
           IN  IsItem(y) => _trieprev(Mem, y) = x
      /\ (f # <<>> => _triemax(Mem) = f[Len(f)])
      /\ Backward(Mem) = Reverse(f)


\* ------------------------------------------------ C37: what erase(it) returns
\* C37: erase(it) returns the item that followed the erased one in forward
\* traversal order (end() when it was the last), never the erased item.
C37_EraseReturnsFollowing ==
  [][op'.name = "erase" =>
       /\ ret' = _trienext(Mem, op'.at)
       /\ ret' # op'.at]_vars


\* ------------------------------------------------- C34: work bounded by bits
\* The head slot the parent chain of x ends at (CRASH when it ends nowhere).
RECURSIVE HeadSlotOf(_, _, _)
HeadSlotOf(m, x, fuel) ==
  IF fuel = 0 \/ ~IsItem(x) \/ m.parent[x] = NULL THEN CRASH
  ELSE IF parent_is_index(m, x) THEN bit_index(m, x)
  ELSE HeadSlotOf(m, m.parent[x], fuel - 1)

\* Slot 0 holds the keys 0 and 1, one of them below the other.
DepthBound(b) == IF b = 0 THEN 1 ELSE b

\* The iterations the descent loop of l.469-501 performs for key k from
\* node; Fuel + 1 stands for a loop that does not end.
RECURSIVE DescentIterations(_, _, _, _, _)
DescentIterations(m, k, node, keybit, fuel) ==
  IF fuel = 0 \/ ~IsItem(node) THEN Fuel + 1
  ELSE IF m.key[node] = k THEN 1
  ELSE LET kb == keybit \div 2
           keybitset == B2N(kb # 0 /\ (k \div kb) % 2 = 1)
           childnode == m.child[node][keybitset]
       IN  IF childnode = NULL THEN 1
           ELSE LET n == DescentIterations(m, k, childnode, kb, fuel - 1)
                IN  IF n > Fuel THEN n ELSE n + 1

\* The iterations the replacement search of l.609-626 performs from
\* childnode.
RECURSIVE SearchIterations(_, _, _, _)
SearchIterations(m, childnode, nobbledir, fuel) ==
  IF fuel = 0 \/ ~IsItem(childnode) THEN Fuel + 1
  ELSE LET next == IF m.child[childnode][nobbledir] # NULL
                     THEN m.child[childnode][nobbledir]
                     ELSE m.child[childnode][1 - nobbledir]
       IN  IF next = NULL THEN 1
           ELSE LET n == SearchIterations(m, next, nobbledir, fuel - 1)
                IN  IF n > Fuel THEN n ELSE n + 1

\* The iterations the parent trace of l.757-768 performs from r.
RECURSIVE TraceIterations(_, _, _)
TraceIterations(m, r, fuel) ==
  IF fuel = 0 THEN Fuel + 1
  ELSE IF parent_is_index(m, r) THEN 0
  ELSE LET node == m.parent[r]
       IN  IF ~IsItem(node) THEN Fuel + 1
           ELSE IF m.child[node][0] = r /\ m.child[node][1] # NULL THEN 1
           ELSE LET n == TraceIterations(m, node, fuel - 1)
                IN  IF n > Fuel THEN n ELSE n + 1

C34_DepthBoundedBySlot ==
  \A x \in attached :
    is_primary_sibling(Mem, x) =>
      LET d == Depth(Mem, x, Fuel)
          b == HeadSlotOf(Mem, x, Fuel)
      IN  d # CRASH /\ b \in Slots /\ d <= DepthBound(b)

C34_DescentBounded ==
  \A k \in Keys :
    trie_children[bitscanr(k)] # NULL =>
      DescentIterations(Mem, k, trie_children[bitscanr(k)], 2^bitscanr(k), Fuel)
        <= KeyBits

C34_SearchBounded ==
  \A r \in attached, dir \in 0..1 :
    ReachesReplacement(Mem, r) =>
      LET first == IF trie_child[r][dir] # NULL THEN dir ELSE 1 - dir
      IN  SearchIterations(Mem, trie_child[r][first], dir, Fuel) <= KeyBits

C34_TraceBounded ==
  \A r \in attached :
    is_primary_sibling(Mem, r) => TraceIterations(Mem, r, Fuel) <= KeyBits

\* C34: the depth of every primary below its head slot b is at most b (at
\* most 1 in slot 0, which holds the keys 0 and 1), and so the descent loop
\* of insert, the replacement search of remove and the parent trace of next
\* each perform at most as many iterations as a key has bits.
C34_WorkBoundedByKeyBits ==
  /\ C34_DepthBoundedBySlot
  /\ C34_DescentBounded
  /\ C34_SearchBounded
  /\ C34_TraceBounded


\* ---------------------------------------------- C35: what an insert changes
\* The insert of r filled an empty head slot and changed no other link.
InsertFilledHeadSlot(r) ==
  /\ \E b \in Slots :
       /\ trie_children[b] = NULL
       /\ trie_children'[b] = r
       /\ \A c \in Slots \ {b} : trie_children'[c] = trie_children[c]
  /\ \A v \in Items \ {r} :
       trie_child'[v] = trie_child[v] /\ trie_sibling'[v] = trie_sibling[v]

\* The insert of r filled an empty child slot of one attached primary and
\* changed no other link.
InsertFilledChildSlot(r) ==
  /\ trie_children' = trie_children
  /\ \E n \in attached, d \in 0..1 :
       /\ is_primary_sibling(Mem, n)
       /\ trie_child[n][d] = NULL
       /\ trie_child'[n] = [trie_child[n] EXCEPT ![d] = r]
       /\ \A v \in Items \ {r, n} : trie_child'[v] = trie_child[v]
  /\ \A v \in Items \ {r} : trie_sibling'[v] = trie_sibling[v]

\* The insert of r changed sibling links of r's two ring neighbours and no
\* other link.
InsertJoinedRing(r) ==
  LET neighbours == {trie_sibling'[r][0], trie_sibling'[r][1]}
  IN  /\ trie_children' = trie_children
      /\ \A v \in Items \ {r} : trie_child'[v] = trie_child[v]
      /\ neighbours \subseteq attached
      /\ \A v \in Items \ ({r} \cup neighbours) :
           trie_sibling'[v] = trie_sibling[v]
      /\ \E v \in neighbours : trie_sibling'[v] # trie_sibling[v]

\* C35: a successful insert moves no existing item: besides the new item's
\* own fields and the count it changes exactly one link set (one empty head
\* slot, or one empty child slot of one attached primary, or the sibling
\* links of the new item's two ring neighbours), and every item attached
\* before keeps its key, its parent, its children and its status.
C35_InsertMovesNothing ==
  [][(op'.name = "insert" /\ ret' = op'.at) =>
       LET r == op'.at
       IN  /\ trie_count' = trie_count + 1
           /\ \A v \in attached :
                /\ trie_key'[v] = trie_key[v]
                /\ trie_parent'[v] = trie_parent[v]
                /\ is_primary_sibling(Mem', v) = is_primary_sibling(Mem, v)
                /\ \A d \in 0..1 :
                     trie_child[v][d] # NULL => trie_child'[v][d] = trie_child[v][d]
           /\ \/ InsertFilledHeadSlot(r)
              \/ InsertFilledChildSlot(r)
              \/ InsertJoinedRing(r)]_vars


\* ----------------------------------------- C36: which item is the primary
\* The members of x's ring in sibling[1] order from x, x first (up to Fuel
\* members; CRASH ends the sequence when a link leads to no item).
RECURSIVE RingOrder(_, _, _, _)
RingOrder(m, x, i, fuel) ==
  IF ~IsItem(i) THEN <<CRASH>>
  ELSE IF fuel = 0 THEN <<CRASH>>
  ELSE IF m.sibling[i][1] = x THEN <<i>>
  ELSE <<i>> \o RingOrder(m, x, m.sibling[i][1], fuel - 1)

C36_PrimaryIsEarliest ==
  \A k \in Keys :
    LET w == WithKey(inserted, k)
    IN  w # <<>> => find(Mem, k) = w[1]

C36_DuplicateGoesLast ==
  (op.name = "insert" /\ ret = op.at /\ AttachedWithKey(op.key) # {op.at}) =>
    LET r == op.at
        o == RingOrder(Mem, find(Mem, op.key), find(Mem, op.key), Fuel)
    IN  /\ is_secondary_sibling(Mem, r)
        /\ trie_sibling[r][1] = find(Mem, op.key)
        /\ o[Len(o)] = r
        /\ Range(o) = AttachedWithKey(op.key)

\* C36: the primary of key k, the item find(k) returns, is the earliest
\* inserted of the attached items with key k, and a duplicate just inserted
\* is the last member of the ring in sibling[1] order, immediately before
\* the primary.
C36_PrimaryEarliestDuplicateLast ==
  C36_PrimaryIsEarliest /\ C36_DuplicateGoesLast

====
